---- MODULE Spec2Model ----
(***************************************************************************)
(* Model of write_the/cli/main.py: the `tests` command (sequential test    *)
(* generation with its skip gate and its writes) and the `docs` command    *)
(* (one task per file, gathered, run under asyncio.run).                   *)
(*                                                                         *)
(* Text is a sequence of tokens ("_" and ".py" are tokens of their own), a *)
(* path is a sequence of components, a component is text.                  *)
(***************************************************************************)
EXTENDS Naturals, Sequences, FiniteSets

VARIABLES
    files,          \* the selected source files, in selection order
    force, save, empty, group, pretty,   \* options of the run
    current_tests,  \* listing of tests_dir taken at the start of the run
    fs,             \* file system: path -> contents, for the files that exist
    dirs,           \* directories that exist
    fs0,            \* fs at the start of the current run
    i,              \* index in files of the file the loop is at
    pc,             \* position of the command
    cur,            \* locals of the current iteration
    log,            \* what the run has done so far, in order
    exitStatus,     \* process exit status: "running", then "success" (0) or "failure"
    runs,           \* summaries of the runs that ended before the current one
    tasks           \* docs: state of each file's task

vars == <<files, force, save, empty, group, pretty, current_tests, fs, dirs,
          fs0, i, pc, cur, log, exitStatus, runs, tasks>>

(* ------------------------------ bounds --------------------------------- *)

MaxDepth == 3

MaxFiles == 3

\* files selected when the command is run twice
MaxRunFiles == 2

(* ------------------------------- text ---------------------------------- *)

pkg == <<"pkg">>

sub == <<"sub">>

lib == <<"lib">>

mod == <<"mod">>

util == <<"util">>

priv_mod == <<"_", "mod">>

Py(stem) == stem \o <<".py">>

tests_dir == << <<"tests">> >>

\* str.startswith("_")
StartsWithUnderscore(s) == Len(s) >= 1 /\ s[1] = "_"

\* '_'.join(parts)
RECURSIVE Join(_)
Join(parts) ==
    IF Len(parts) = 0 THEN <<>>
    ELSE IF Len(parts) = 1 THEN parts[1]
    ELSE parts[1] \o <<"_">> \o Join(Tail(parts))

\* file.stem: the final component without its suffix
Stem(file) ==
    LET name == file[Len(file)]
    IN  IF Len(name) > 1 /\ name[Len(name)] = ".py"
        THEN SubSeq(name, 1, Len(name) - 1)
        ELSE name

\* mutant of Parts: the slice keeps the first component, file.parts[:-1]
PartsKeepFirst(file) == <<<<"test">>>> \o SubSeq(file, 1, Len(file) - 1)

\* parts = ["test"] + list(file.parts[1:-1])
Parts(file) == <<<<"test">>>> \o SubSeq(file, 2, Len(file) - 1)

\* f"{'_'.join(parts)}_{file.stem}.py"
TestFileName(file) == Join(Parts(file)) \o <<"_">> \o Stem(file) \o <<".py">>

\* test_file: the name when flat, Path(os.path.join(*parts, name)) when grouped
TestFile(file, grp) ==
    IF grp THEN Parts(file) \o <<TestFileName(file)>>
    ELSE <<TestFileName(file)>>

\* test_file_path = tests_dir / test_file
TestFilePath(file, grp) == tests_dir \o TestFile(file, grp)

Ancestors(p) == { SubSeq(p, 1, n) : n \in 1..(Len(p) - 1) }

\* the path as text, components separated by "/"
RECURSIVE PathStr(_)
PathStr(p) ==
    IF Len(p) = 0 THEN <<>>
    ELSE IF Len(p) = 1 THEN p[1]
    ELSE p[1] \o <<"/">> \o PathStr(Tail(p))

(* ------------------------- the source tree ----------------------------- *)

\* list_python_files(file): the files of the tree, in listing order
SrcTree ==
    << <<pkg, sub, Py(mod)>>,
       <<lib, sub, Py(mod)>>,
       <<pkg, sub, Py(priv_mod)>>,
       <<pkg, Py(util)>>,
       <<pkg, lib, Py(mod)>> >>

\* the files of SrcTree at the indices S, in listing order
Select(S) ==
    LET F[k \in 0..Len(SrcTree)] ==
            IF k = 0 THEN <<>>
            ELSE IF k \in S THEN Append(F[k - 1], SrcTree[k]) ELSE F[k - 1]
    IN  F[Len(SrcTree)]

Selections ==
    { Select(S) : S \in { T \in SUBSET (1..Len(SrcTree)) :
                              Cardinality(T) >= 1 /\ Cardinality(T) <= MaxFiles } }

SourceText == <<"source">>

OldText == <<"old tests">>

\* the text write_the_tests returns for a file when it succeeds
Text(file) == <<"tests for ">> \o PathStr(file)

\* how the call of write_the_tests can end: with its text, with InvalidInput,
\* with any other error
Outcomes == {"ok", "invalid", "error"}

(* --------------------------- the tests command ------------------------- *)

NoCur == [file |-> <<>>, test_file |-> <<>>, test_file_path |-> <<>>]

Event(op, k, path, data, ex) ==
    [op |-> op, k |-> k, path |-> path, data |-> data, exists |-> ex]

\* mutant of IsPrivate: the private check is left out
IsPrivateNever(file) == FALSE

\* file.stem.startswith("_")
IsPrivate(file) == StartsWithUnderscore(Stem(file))

\* mutant of SkipCondition: the existence of the path is not consulted
SkipIgnoresExists(exists, listed) == listed

\* mutant of SkipCondition: the listing is not consulted
SkipIgnoresListing(exists, listed) == exists /\ (~force /\ save)

\* test_file_path.exists() and (not force and save) or (test_file in current_tests)
SkipCondition(exists, listed) == (exists /\ (~force /\ save)) \/ listed

\* mutant of Result: the handler keeps what was generated so far
ResultKeepsPartial(outcome, file) ==
    IF outcome = "invalid" THEN <<"tests for ">> ELSE <<"tests for ">> \o PathStr(file)

\* try: result = await write_the_tests(...) except InvalidInput: failed, result = True, ""
Failed(outcome) == outcome = "invalid"

Result(outcome, file) == IF outcome = "invalid" THEN <<>> ELSE Text(file)

\* mutant of PrintsStatus: the status line is printed for every file
PrintsStatusAlways(failed) == TRUE

\* if len(files) > 1 or save or failed
PrintsStatus(failed) == Len(files) > 1 \/ save \/ failed

\* mutant of DropsResult: the result of a failed call is dropped, empty or not
DropsAnyFailure(failed) == failed

\* if failed and not empty: continue
DropsResult(failed) == failed /\ ~empty

\* f.writelines(result): every element of result, in order
RECURSIVE Writelines(_)
Writelines(result) ==
    IF Len(result) = 0 THEN <<>> ELSE <<Head(result)>> \o Writelines(Tail(result))

\* mutant of WriteFile: test_file is opened, not tests_dir / test_file
WriteFileInCwd(f, path, result) ==
    [q \in DOMAIN f \cup {Tail(path)} |->
        IF q = Tail(path) THEN Writelines(result) ELSE f[q]]

\* open(test_file_path, "w") ... f.writelines(result)
WriteFile(f, path, result) ==
    [q \in DOMAIN f \cup {path} |-> IF q = path THEN Writelines(result) ELSE f[q]]

\* tests_dir.mkdir(exist_ok=True); test_file_path.parent.mkdir(exist_ok=True, parents=True)
MakeDirs(d, path) == d \cup {tests_dir} \cup Ancestors(path)

\* mutant of AtLoopHead: the next pass starts without the call having ended
AtLoopHeadOrAwaiting == pc \in {"loop", "await"}

\* result = await write_the_tests(...): the loop goes on when the call has ended
AtLoopHead == pc = "loop"

\* one pass of the loop head: the private check, the derived path, the skip gate,
\* and for a file that passes both the call of write_the_tests
Iterate ==
    /\ AtLoopHead
    /\ i <= Len(files)
    /\ LET file == files[i]
           test_file == TestFile(file, group)
           test_file_path == TestFilePath(file, group)
           exists == test_file_path \in DOMAIN fs
           listed == test_file \in current_tests
       IN  IF IsPrivate(file)
           THEN /\ i' = i + 1
                /\ log' = Append(log, Event("private", i, <<>>, <<>>, FALSE))
                /\ UNCHANGED <<pc, cur>>
           ELSE IF SkipCondition(exists, listed)
           THEN /\ i' = i + 1
                /\ log' = Append(log, Event("skip", i, test_file_path, <<>>, exists))
                /\ UNCHANGED <<pc, cur>>
           ELSE /\ pc' = "await"
                /\ cur' = [file |-> file, test_file |-> test_file,
                           test_file_path |-> test_file_path]
                /\ log' = Append(log, Event("gate", i, test_file_path, <<>>, exists))
                            \o <<Event("request", i, test_file_path, <<>>, FALSE)>>
                /\ UNCHANGED i
    /\ UNCHANGED <<files, force, save, empty, group, pretty, current_tests, fs,
                   dirs, fs0, exitStatus, runs, tasks>>

\* mutant of Persists: the result is written in print mode too
PersistsAlways == TRUE

\* if save: ... elif pretty: ... else: ...
Persists == save

\* mutant of Uncaught: every error is caught
UncaughtNone(outcome) == FALSE

\* mutant of Uncaught: InvalidInput is not caught either
UncaughtAnyFailure(outcome) == outcome # "ok"

\* except InvalidInput: no other error is caught
Uncaught(outcome) == outcome = "error"

\* the call of write_the_tests ends. An error other than InvalidInput leaves
\* tests(), run() and the command. Otherwise: the status line, then the write
\* or the print, up to the next pass of the loop
Resume(outcome) ==
    /\ pc = "await"
    /\ LET failed == Failed(outcome)
           result == Result(outcome, cur.file)
           path == cur.test_file_path
           log0 == Append(log, Event("return", i, path, <<outcome>>, FALSE))
           log1 == IF PrintsStatus(failed)
                   THEN Append(log0, Event("status", i, <<>>,
                                           IF failed THEN <<"failure">> ELSE <<"success">>,
                                           FALSE))
                   ELSE log0
       IN  IF Uncaught(outcome)
           THEN /\ pc' = "raised"
                /\ exitStatus' = "failure"
                /\ log' = Append(log0, Event("raise", i, <<>>, <<>>, FALSE))
                /\ UNCHANGED <<fs, dirs, i>>
           ELSE /\ i' = i + 1
                /\ pc' = "loop"
                /\ UNCHANGED exitStatus
                /\ IF DropsResult(failed)
                   THEN /\ log' = log1
                        /\ UNCHANGED <<fs, dirs>>
                   ELSE IF Persists
                   THEN /\ fs' = WriteFile(fs, path, result)
                        /\ dirs' = MakeDirs(dirs, path)
                        /\ log' = Append(log1, Event("write", i, path,
                                                     Writelines(result), FALSE))
                   ELSE /\ log' = Append(log1, Event(IF pretty THEN "syntax" ELSE "echo",
                                                     i, <<>>, result, FALSE))
                        /\ UNCHANGED <<fs, dirs>>
    /\ cur' = NoCur
    /\ UNCHANGED <<files, force, save, empty, group, pretty, current_tests,
                   fs0, runs, tasks>>

\* the loop is exhausted: tests() returns None, run() returns, the command exits with 0
Finish ==
    /\ pc = "loop"
    /\ i > Len(files)
    /\ pc' = "done"
    /\ exitStatus' = "success"
    /\ UNCHANGED <<files, force, save, empty, group, pretty, current_tests, fs,
                   dirs, fs0, i, cur, log, runs, tasks>>

\* the derived names and paths of the selected files
Names(fl, grp) == { TestFile(fl[k], grp) : k \in 1..Len(fl) }

OutPaths(fl, grp) == { TestFilePath(fl[k], grp) : k \in 1..Len(fl) }

SourceFs(fl) == [p \in { fl[k] : k \in 1..Len(fl) } |-> SourceText]

\* a file under tests_dir that is no derived path of any source file
Conftest == tests_dir \o << <<"conftest", ".py">> >>

OtherFs == [p \in {Conftest} |-> OldText]

\* f and g have disjoint domains
Merge(f, g) == [p \in DOMAIN f \cup DOMAIN g |-> IF p \in DOMAIN f THEN f[p] ELSE g[p]]

DirsOf(f) == UNION { Ancestors(p) : p \in DOMAIN f }

\* the state after tests() has taken its listing and its file selection.
\* list_python_files is not part of main.py, and `test_file in current_tests`
\* compares a str (flat) or a relative Path (grouped) with what it returns:
\* the listing is any set of derived names, listed or not independently of
\* whether the derived path exists (a file of that name may be elsewhere under
\* tests_dir; an existing file may be listed in a form that test_file is not)
Init ==
    /\ files \in Selections
    /\ force \in BOOLEAN /\ save \in BOOLEAN /\ empty \in BOOLEAN
    /\ group \in BOOLEAN /\ pretty \in BOOLEAN
    /\ current_tests \in SUBSET Names(files, group)
    /\ \E E \in SUBSET OutPaths(files, group) :
          fs = Merge(Merge(SourceFs(files), OtherFs), [p \in E |-> OldText])
    /\ dirs = DirsOf(fs)
    /\ fs0 = fs
    /\ i = 1
    /\ pc = "loop"
    /\ cur = NoCur
    /\ log = <<>>
    /\ exitStatus = "running"
    /\ runs = <<>>
    /\ tasks = <<>>

Next ==
    \/ Iterate
    \/ \E outcome \in Outcomes : Resume(outcome)
    \/ Finish

Spec == Init /\ [][Next]_vars

(* --------------------------- a second run ------------------------------ *)

\* the command is run again over the same selection, with options of its own;
\* the listing is taken anew
StartRun ==
    /\ pc \in {"done", "raised"}
    /\ runs = <<>>
    /\ runs' = <<[force |-> force, save |-> save, empty |-> empty, log |-> log,
                  fs0 |-> fs0, fs |-> fs]>>
    /\ force' \in BOOLEAN /\ save' \in BOOLEAN /\ empty' \in BOOLEAN
    /\ current_tests' \in SUBSET Names(files, group)
    /\ fs0' = fs
    /\ i' = 1
    /\ pc' = "loop"
    /\ cur' = NoCur
    /\ log' = <<>>
    /\ exitStatus' = "running"
    /\ UNCHANGED <<files, group, pretty, fs, dirs, tasks>>

\* a first run in a tree without tests yet
InitRuns ==
    /\ Init
    /\ Len(files) <= MaxRunFiles
    /\ ~pretty
    /\ current_tests = {}
    /\ fs = Merge(SourceFs(files), OtherFs)

NextRuns == Next \/ StartRun

SpecRuns == InitRuns /\ [][NextRuns]_vars

(* --------------------------- the docs command -------------------------- *)

\* the text async_cli_task saves for a file
DocText(file) == <<"docs for ">> \o PathStr(file)

\* tasks.append(async_cli_task(file, ...)) for every file
CreateTasks ==
    /\ pc = "start"
    /\ tasks' = [k \in 1..Len(files) |-> "created"]
    /\ pc' = "gather"
    /\ UNCHANGED <<files, force, save, empty, group, pretty, current_tests, fs,
                   dirs, fs0, i, cur, log, exitStatus, runs>>

\* a task runs up to its call of the generation service
TaskStart(k) ==
    /\ pc = "gather"
    /\ tasks[k] = "created"
    /\ tasks' = [tasks EXCEPT ![k] = "awaiting"]
    /\ UNCHANGED <<files, force, save, empty, group, pretty, current_tests, fs,
                   dirs, fs0, i, pc, cur, log, exitStatus, runs>>

\* the call returns and the task runs to its end
TaskReturn(k) ==
    /\ pc = "gather"
    /\ tasks[k] = "awaiting"
    /\ tasks' = [tasks EXCEPT ![k] = "done"]
    /\ fs' = IF save THEN [fs EXCEPT ![files[k]] = DocText(files[k])] ELSE fs
    /\ log' = Append(log, Event("documented", k, files[k], <<>>, FALSE))
    /\ UNCHANGED <<files, force, save, empty, group, pretty, current_tests,
                   dirs, fs0, i, pc, cur, exitStatus, runs>>

\* the task raises: while parsing its file, or out of the call
TaskRaise(k) ==
    /\ pc = "gather"
    /\ tasks[k] \in {"created", "awaiting"}
    /\ tasks' = [tasks EXCEPT ![k] = "raised"]
    /\ log' = Append(log, Event("raise", k, files[k], <<>>, FALSE))
    /\ UNCHANGED <<files, force, save, empty, group, pretty, current_tests, fs,
                   dirs, fs0, i, pc, cur, exitStatus, runs>>

\* run(): when the main coroutine ends, the tasks still pending are cancelled
CancelPending(t) ==
    [k \in DOMAIN t |-> IF t[k] \in {"created", "awaiting"} THEN "cancelled" ELSE t[k]]

\* await gather(*tasks) with every task done: docs() returns, run() returns
GatherReturns ==
    /\ pc = "gather"
    /\ \A k \in DOMAIN tasks : tasks[k] = "done"
    /\ pc' = "done"
    /\ exitStatus' = "success"
    /\ UNCHANGED <<files, force, save, empty, group, pretty, current_tests, fs,
                   dirs, fs0, i, cur, log, runs, tasks>>

\* await gather(*tasks) with a task that raised: gather hands the first error
\* to docs(), which ends with it; run() cancels what is pending and raises
GatherRaises ==
    /\ pc = "gather"
    /\ \E k \in DOMAIN tasks : tasks[k] = "raised"
    /\ \A k \in DOMAIN tasks : tasks[k] # "created"
    /\ pc' = "raised"
    /\ tasks' = CancelPending(tasks)
    /\ exitStatus' = "failure"
    /\ UNCHANGED <<files, force, save, empty, group, pretty, current_tests, fs,
                   dirs, fs0, i, cur, log, runs>>

InitDocs ==
    /\ files \in Selections
    /\ save \in BOOLEAN
    /\ force = FALSE /\ empty = FALSE /\ group = FALSE /\ pretty = FALSE
    /\ current_tests = {}
    /\ fs = SourceFs(files)
    /\ dirs = DirsOf(fs)
    /\ fs0 = fs
    /\ i = 1
    /\ pc = "start"
    /\ cur = NoCur
    /\ log = <<>>
    /\ exitStatus = "running"
    /\ runs = <<>>
    /\ tasks = <<>>

NextDocs ==
    \/ CreateTasks
    \/ \E k \in DOMAIN tasks : TaskStart(k)
    \/ \E k \in DOMAIN tasks : TaskReturn(k)
    \/ \E k \in DOMAIN tasks : TaskRaise(k)
    \/ GatherReturns
    \/ GatherRaises

SpecDocs == InitDocs /\ [][NextDocs]_vars

(* ------------------------ the derived path alone ----------------------- *)

DirNames == {pkg, sub, lib}

FileNames == {Py(mod), Py(priv_mod)}

RECURSIVE DirSeqs(_)
DirSeqs(n) ==
    IF n = 0 THEN {<<>>}
    ELSE DirSeqs(n - 1) \cup { Append(d, c) : d \in DirSeqs(n - 1), c \in DirNames }

PathInputs == { Append(d, f) : d \in DirSeqs(MaxDepth), f \in FileNames }

InitPath ==
    /\ files \in { <<f>> : f \in PathInputs }
    /\ group \in BOOLEAN
    /\ force = FALSE /\ save = FALSE /\ empty = FALSE /\ pretty = FALSE
    /\ current_tests = {}
    /\ fs = SourceFs(files)
    /\ dirs = DirsOf(fs)
    /\ fs0 = fs
    /\ i = 1
    /\ pc = "derive"
    /\ cur = NoCur
    /\ log = <<>>
    /\ exitStatus = "running"
    /\ runs = <<>>
    /\ tasks = <<>>

\* lines 202-208 of tests() applied to one file
DerivePath ==
    /\ pc = "derive"
    /\ pc' = "derived"
    /\ cur' = [file |-> files[i], test_file |-> TestFile(files[i], group),
               test_file_path |-> TestFilePath(files[i], group)]
    /\ UNCHANGED <<files, force, save, empty, group, pretty, current_tests, fs,
                   dirs, fs0, i, log, exitStatus, runs, tasks>>

NextPath == DerivePath

SpecPath == InitPath /\ [][NextPath]_vars

(* ------------------------------- C1 ------------------------------------ *)

\* the directory components of a path: all but the file name
DirsOfPath(file) == SubSeq(file, 1, Len(file) - 1)

\* "test", then the components ds in order, then the stem, joined by "_", and ".py"
Underscored(ds, stem) ==
    LET F[k \in 0..Len(ds)] ==
            IF k = 0 THEN <<"test">> ELSE F[k - 1] \o <<"_">> \o ds[k]
    IN  F[Len(ds)] \o <<"_">> \o stem \o <<".py">>

NameStem(file) == SubSeq(file[Len(file)], 1, Len(file[Len(file)]) - 1)

ExamplePath == <<pkg, sub, Py(mod)>>

Idx == 1..Len(log)

Has(op, k) == \E n \in Idx : log[n].op = op /\ log[n].k = k

Returned(k, outcome) ==
    \E n \in Idx : log[n].op = "return" /\ log[n].k = k /\ log[n].data = <<outcome>>

Ended == pc \in {"done", "raised"}

Underscore(k) == files[k][Len(files[k])][1] = "_"

\* the skip condition as the gate of log entry n saw it
MeetsSkip(n) ==
    \/ log[n].exists /\ ~force /\ save
    \/ TestFile(files[log[n].k], group) \in current_tests

(* ------------------------------- C2 ------------------------------------ *)

\* C2: a file whose derived path meets the skip condition when its gate is
\* evaluated gets no request, no status line, no write and no print, and every
\* request comes after the gate of its file, which found the condition false
C2_SkipBeforeDispatch ==
    /\ \A n \in Idx :
          (log[n].op \in {"skip", "gate"} /\ MeetsSkip(n)) =>
              \A m \in Idx : log[m].k = log[n].k => log[m].op = "skip"
    /\ \A n \in Idx :
          log[n].op = "request" =>
              \E m \in 1..(n - 1) :
                  log[m].op = "gate" /\ log[m].k = log[n].k /\ ~MeetsSkip(m)

C2_Witness ==
    /\ pc = "done"
    /\ \E n \in Idx : log[n].op = "skip" /\ log[n].exists
                      /\ TestFile(files[log[n].k], group) \notin current_tests
    /\ \E n \in Idx : log[n].op = "skip" /\ ~log[n].exists
    /\ \E n \in Idx : log[n].op = "write"

(* ------------------------------- C3 ------------------------------------ *)

\* C3 as claimed: with force, every selected file that is not private gets a
\* generation request, whatever exists and whatever the listing holds
C3_ForceBypassesSkip ==
    (pc = "done" /\ force) =>
        \A k \in 1..Len(files) : ~Underscore(k) => Has("request", k)

(* ------------------------------- C4 ------------------------------------ *)

\* C4: for a file whose base name starts with an underscore no request is
\* issued and nothing is written or printed, and its derived path is as it was
\* before the run
C4_PrivateExcluded ==
    \A k \in 1..Len(files) :
        Underscore(k) =>
            LET p == TestFilePath(files[k], group)
            IN  /\ \A n \in Idx : log[n].k = k => log[n].op = "private"
                /\ (p \in DOMAIN fs) = (p \in DOMAIN fs0)
                /\ p \in DOMAIN fs => fs[p] = fs0[p]

C4_Witness ==
    /\ pc = "done" /\ force /\ save /\ empty
    /\ \E k \in 1..Len(files) : Underscore(k) /\ Has("private", k)
    /\ \E n \in Idx : log[n].op = "write"

(* ------------------------------- C6 ------------------------------------ *)

\* C6: every write stores the whole text of a call that succeeded, or nothing
\* at all when the call failed with invalid output and empty is set; a failed
\* call without empty writes nothing; and every file on disk holds what it
\* held before the run or what the last write to it stored
C6_NoMalformedOutput ==
    /\ \A n \in Idx :
          log[n].op = "write" =>
              \/ Returned(log[n].k, "ok") /\ log[n].data = Text(files[log[n].k])
              \/ Returned(log[n].k, "invalid") /\ empty /\ log[n].data = <<>>
    /\ \A k \in 1..Len(files) :
          ((Returned(k, "invalid") /\ ~empty) \/ Returned(k, "error")) => ~Has("write", k)
    /\ \A p \in DOMAIN fs :
          \/ p \in DOMAIN fs0 /\ fs[p] = fs0[p]
          \/ \E n \in Idx : log[n].op = "write" /\ log[n].path = p /\ log[n].data = fs[p]

C6_Witness ==
    /\ pc = "done"
    /\ \E n \in Idx : log[n].op = "write" /\ log[n].data = <<>>
    /\ \E n \in Idx : log[n].op = "write" /\ log[n].data # <<>>
    /\ \E k \in 1..Len(files) : Returned(k, "invalid")

(* ------------------------------- C7 ------------------------------------ *)

\* C7 as claimed: an output file that held content before the run, and whose
\* source file's generation failed, holds the same content after the run
\* (no other file of the run wrote to it)
C7_FailureKeepsArtifact ==
    Ended =>
        \A k \in 1..Len(files) :
            LET p == TestFilePath(files[k], group)
            IN  ( /\ Returned(k, "invalid") \/ Returned(k, "error")
                  /\ p \in DOMAIN fs0 /\ fs0[p] # <<>>
                  /\ \A n \in Idx : (log[n].op = "write" /\ log[n].path = p) => log[n].k = k )
                => fs[p] = fs0[p]

(* ------------------------------- C8 ------------------------------------ *)

InvalidOnes == { k \in 1..Len(files) : Returned(k, "invalid") }

\* C8: a run with save in which exactly one file failed with invalid output
\* (and no call raised another error) runs to its end: every other file that is
\* neither private nor skipped is requested, written with its generated text
\* and reported as success, and exactly one failure line is printed
C8_FailureContained ==
    ( /\ Ended /\ save
      /\ Cardinality(InvalidOnes) = 1
      /\ \A k \in 1..Len(files) : ~Returned(k, "error") )
    =>
      /\ pc = "done"
      /\ \A k \in 1..Len(files) :
            (k \notin InvalidOnes /\ ~Underscore(k) /\ ~Has("skip", k)) =>
                /\ Has("request", k)
                /\ \E n \in Idx : /\ log[n].op = "write" /\ log[n].k = k
                                  /\ log[n].path = TestFilePath(files[k], group)
                                  /\ log[n].data = Text(files[k])
                /\ \E n \in Idx : /\ log[n].op = "status" /\ log[n].k = k
                                  /\ log[n].data = <<"success">>
      /\ Cardinality({ n \in Idx : log[n].op = "status" /\ log[n].data = <<"failure">> }) = 1
      /\ \A n \in Idx :
            (log[n].op = "status" /\ log[n].data = <<"failure">>) => log[n].k \in InvalidOnes

C8_Witness ==
    /\ pc = "done" /\ save /\ Len(files) = 3
    /\ Returned(1, "ok") /\ Returned(2, "invalid") /\ Returned(3, "ok")
    /\ Has("write", 1) /\ Has("write", 3)

(* ------------------------------- C10 ----------------------------------- *)

\* C10 as claimed: the exit status of a run that ended is success exactly when
\* no file's generation failed
C10_ExitReflectsFailure ==
    Ended =>
        (exitStatus = "success" <=>
            \A k \in 1..Len(files) : ~Returned(k, "invalid") /\ ~Returned(k, "error"))

(* ------------------------------- C5 ------------------------------------ *)

ReturnedIn(l, k, outcome) ==
    \E n \in 1..Len(l) : l[n].op = "return" /\ l[n].k = k /\ l[n].data = <<outcome>>

WroteIn(l, k, p, data) ==
    \E n \in 1..Len(l) :
        l[n].op = "write" /\ l[n].k = k /\ l[n].path = p /\ l[n].data = data

\* C5 as claimed: with empty, whatever save is in either run, a generation
\* that failed with invalid output wrote a zero-length file at the derived
\* path, and a later run without force issues no request for that file
C5_PlaceholderAnySave ==
    runs # <<>> =>
        \A k \in 1..Len(files) :
            (runs[1].empty /\ ReturnedIn(runs[1].log, k, "invalid")) =>
                /\ WroteIn(runs[1].log, k, TestFilePath(files[k], group), <<>>)
                /\ ~force => ~Has("request", k)

\* C5 amended: with empty and save, a generation that failed with invalid
\* output wrote a zero-length file at the derived path, which exists when the
\* next run starts, and a next run without force and with save issues no
\* request for that file and skips it
C5_PlaceholderSkipped ==
    runs # <<>> =>
        \A k \in 1..Len(files) :
            (runs[1].empty /\ runs[1].save /\ ReturnedIn(runs[1].log, k, "invalid")) =>
                LET p == TestFilePath(files[k], group)
                IN  /\ WroteIn(runs[1].log, k, p, <<>>)
                    /\ p \in DOMAIN fs0
                    /\ (~force /\ save) =>
                          /\ ~Has("request", k)
                          /\ pc = "done" => Has("skip", k)

C5_Witness ==
    /\ runs # <<>> /\ pc = "done" /\ ~force /\ save
    /\ runs[1].empty /\ runs[1].save
    /\ \E k \in 1..Len(files) :
          /\ ReturnedIn(runs[1].log, k, "invalid")
          /\ Has("skip", k)
          /\ TestFile(files[k], group) \notin current_tests
          /\ fs[TestFilePath(files[k], group)] = <<>>

(* ------------------------------- C9 ------------------------------------ *)

\* C9 as claimed: docs creates one task per selected file, and when the run
\* has ended every task has run to its own end: none was halted or cancelled
\* because another file's task raised
C9_FailureDoesNotHalt ==
    /\ pc # "start" => Len(tasks) = Len(files)
    /\ pc \in {"done", "raised"} =>
          \A k \in DOMAIN tasks : tasks[k] \in {"done", "raised"}

(* ------------------------------- C11 ----------------------------------- *)

\* C11 as claimed: when a run over more than one file has reached its end,
\* every selected file has exactly one status line, the files skipped by the
\* private check or by the gate included
C11_EveryFileReported ==
    (pc = "done" /\ Len(files) > 1) =>
        \A k \in 1..Len(files) :
            Cardinality({ n \in Idx : log[n].op = "status" /\ log[n].k = k }) = 1

(* ------------------------------- C12 ----------------------------------- *)

\* C12: with save = false the run creates and modifies no file and no
\* directory, and writes nothing, whatever the other options and however the
\* calls end
C12_PrintModeKeepsDisk ==
    ~save =>
        /\ fs = fs0
        /\ dirs = DirsOf(fs0)
        /\ \A n \in Idx : log[n].op # "write"

C12_Witness ==
    /\ pc = "done" /\ ~save /\ force /\ empty /\ group
    /\ \E k \in 1..Len(files) : Returned(k, "ok") /\ Has("echo", k)
    /\ \E k \in 1..Len(files) : Returned(k, "invalid") /\ Has("echo", k)

(* ------------------------------- C13 ----------------------------------- *)

\* C13 as claimed: within one run no derived output path is written more than
\* once, also when two source files derive the same path, whatever force is
C13_NoPathWrittenTwice ==
    \A n \in Idx : \A m \in Idx :
        (log[n].op = "write" /\ log[m].op = "write" /\ log[n].path = log[m].path)
            => n = m

(* ------------------------------- C14 ----------------------------------- *)

\* C14 as claimed: what a docs run leaves in each file does not depend on the
\* order in which the tasks end: when the run has ended, every file whose own
\* task did not raise holds its documented text (with save), and every file
\* whose task raised holds what it held before
C14_OrderIndependent ==
    (Ended /\ tasks # <<>>) =>
        \A k \in DOMAIN tasks :
            fs[files[k]] = IF save /\ tasks[k] # "raised"
                           THEN DocText(files[k])
                           ELSE fs0[files[k]]

(* ------------------------------- C15 ----------------------------------- *)

Printed == { n \in Idx : log[n].op \in {"status", "echo", "syntax"} }

PrintsOnly(data) ==
    /\ Cardinality(Printed) = 1
    /\ \A n \in Printed : /\ log[n].op = (IF pretty THEN "syntax" ELSE "echo")
                          /\ log[n].data = data

C16_ServiceErrorAborts ==
    \A k \in 1..Len(files) :
        Returned(k, "error") =>
            /\ pc = "raised" /\ i = k /\ exitStatus = "failure"
            /\ Cardinality({ n \in Idx : log[n].op = "request" /\ log[n].k = k }) = 1
            /\ \A n \in Idx :
                  log[n].k = k => log[n].op \in {"gate", "request", "return", "raise"}
            /\ \A n \in Idx : log[n].k <= k
            /\ log[Len(log)].op = "raise"
            /\ \A n \in Idx :
                  ( /\ log[n].op = "write"
                    /\ \A m \in (n + 1)..Len(log) :
                          ~(log[m].op = "write" /\ log[m].path = log[n].path) )
                  => fs[log[n].path] = log[n].data

C16_Witness ==
    /\ pc = "raised" /\ Len(files) = 3
    /\ Returned(2, "error") /\ Has("write", 1)
    /\ ~Has("gate", 3) /\ ~Has("skip", 3)

(* ------------------------------- C17 ----------------------------------- *)

Outstanding ==
    Cardinality({ n \in Idx : log[n].op = "request" })
        - Cardinality({ n \in Idx : log[n].op = "return" })

\* C17: the files are processed one after another in selection order: every
\* step of a file comes before every step of the files after it, a file is
\* requested at most once, and at most one request is outstanding, which is
\* the request of the file the loop is at
C17_Sequential ==
    /\ \A n \in 1..(Len(log) - 1) : log[n].k <= log[n + 1].k
    /\ \A n \in Idx : log[n].k <= i
    /\ \A k \in 1..Len(files) :
          Cardinality({ n \in Idx : log[n].op = "request" /\ log[n].k = k }) <= 1
    /\ Outstanding \in {0, 1}
    /\ Outstanding = 1 <=> pc = "await"
    /\ pc = "await" => (log[Len(log)].op = "request" /\ log[Len(log)].k = i)

C17_Witness ==
    /\ pc = "await" /\ i = 3 /\ save
    /\ Has("status", 1) /\ Has("write", 1)
    /\ Has("status", 2) /\ Has("write", 2)

(* ------------------------------- C18 ----------------------------------- *)

\* C18 as claimed: while the call of one file's task has not returned, the
\* docs run does not finish, the tasks of the other files can go on (a call
\* of theirs can return), and none of them is cut short
C18_HungStallsOnlyItself ==
    [][ \A k \in DOMAIN tasks :
            tasks[k] = "awaiting" =>
                /\ pc' = "gather"
                /\ \A j \in DOMAIN tasks : tasks'[j] # "cancelled"
                /\ \A j \in DOMAIN tasks : tasks[j] = "awaiting" => ENABLED TaskReturn(j) ]_vars

(* ------------------------------- C19 ----------------------------------- *)

WrittenInFirstRun(k) ==
    \E n \in 1..Len(runs[1].log) : runs[1].log[n].op = "write" /\ runs[1].log[n].k = k

\* C19: after a run with save, a second run over the same files with save
\* and without force skips every file the first run wrote an output for (no
\* request, no status line, no write), and every file that existed when the
\* second run started keeps its contents
C19_SecondRunIdempotent ==
    (runs # <<>> /\ runs[1].save /\ save /\ ~force) =>
        /\ \A k \in 1..Len(files) :
              WrittenInFirstRun(k) =>
                  \A n \in Idx : log[n].k = k => log[n].op = "skip"
        /\ \A p \in DOMAIN fs0 : fs[p] = fs0[p]
        /\ \A n \in Idx : log[n].op = "write" => log[n].path \notin DOMAIN fs0

C19_Witness ==
    /\ runs # <<>> /\ pc = "done" /\ runs[1].save /\ save /\ ~force
    /\ current_tests = {}
    /\ \E k \in 1..Len(files) :
          /\ WrittenInFirstRun(k)
          /\ Has("skip", k)
          /\ fs[TestFilePath(files[k], group)] = Text(files[k])

(* ------------------------------- C20 ----------------------------------- *)

Dispatched == { k \in 1..Len(files) : Has("request", k) }

Changed(p) ==
    IF p \in DOMAIN fs0
    THEN p \notin DOMAIN fs \/ fs[p] # fs0[p]
    ELSE p \in DOMAIN fs

ChangedPaths == { p \in DOMAIN fs \cup DOMAIN fs0 : Changed(p) }

\* C20: every file the run created or modified is the derived output path,
\* under tests_dir, of a file that was dispatched in the run; the source files,
\* the other files under tests_dir and the outputs of files that were only
\* skipped are as before the run
C20_WriteFrame ==
    /\ \A p \in DOMAIN fs \cup DOMAIN fs0 :
          Changed(p) =>
              /\ SubSeq(p, 1, Len(tests_dir)) = tests_dir
              /\ \E k \in 1..Len(files) :
                    Has("request", k) /\ p = TestFilePath(files[k], group)
    /\ \A k \in 1..Len(files) : ~Changed(files[k])
    /\ ~Changed(Conftest)
    /\ \A k \in 1..Len(files) :
          Changed(TestFilePath(files[k], group)) =>
              \E j \in Dispatched :
                  TestFilePath(files[j], group) = TestFilePath(files[k], group)

C20_Witness ==
    /\ pc = "done" /\ save /\ force
    /\ \E n \in Idx : log[n].op = "skip" /\ log[n].exists /\ fs[log[n].path] = OldText
    /\ \E n \in Idx : log[n].op = "write" /\ log[n].path \in DOMAIN fs0
    /\ \E n \in Idx : log[n].op = "write" /\ log[n].path \notin DOMAIN fs0
    /\ fs[Conftest] = OldText

\* C20 as claimed: in addition, the derived path of every file that was
\* skipped is as before the run, whatever the other files of the run derive
C20_SkippedUntouched ==
    /\ C20_WriteFrame
    /\ \A k \in 1..Len(files) :
          Has("skip", k) => TestFilePath(files[k], group) \notin ChangedPaths

====
